---- MODULE Spec2Model ----
(***************************************************************************)
(* Model of backend/main.py of the microgreen portal: the in-memory        *)
(* inventory ledger (inventory_items, inventory_logs, notifications), the  *)
(* order store (orders) and the request handlers that change them.         *)
(* Every request handler is one action that runs to its return or raise;   *)
(* adjust_inventory is an operator on the store that the handlers compose, *)
(* as the code calls it.                                                   *)
(***************************************************************************)
EXTENDS Integers, Sequences, FiniteSets, TLC

VARIABLES
    inventory_items,   \* list of batches  [id, variety, trayCount, status]
    inventory_logs,    \* list of log rows [itemId, change, reason]
    orders,            \* list of orders   [id, status, items]
    notifications,     \* number of in-app notifications appended so far
    uuid_count,        \* number of batch uuids issued so far
    last,              \* the last request served and its HTTP answer
    tracing,           \* whether the answers are kept in `last`
    workers,           \* the threads inside adjust_inventory, each with its locals
    smtp,              \* the mail settings of the environment and the server behind them
    today,             \* date.today(), as a day number
    forecasts_cache,   \* forecasts_cache: cache key |-> the forecast stored under it
    oracle_calls,      \* how many times Prophet was fitted
    returned           \* the forecast the last GET /forecast returned (when tracing)

vars == <<inventory_items, inventory_logs, orders, notifications, uuid_count, last, tracing,
          workers, smtp, today, forecasts_cache, oracle_calls, returned>>

(* What the forecast route reads and writes besides the orders. *)
forecasting == <<today, forecasts_cache, oracle_calls, returned>>

(* What no request handler writes. *)
aside == <<tracing, workers, smtp, forecasting>>

ledger == <<inventory_items, inventory_logs, notifications>>

----------------------------------------------------------------------------
(* Bounds of the model *)

MaxItems == 2
MaxUuid == 2
MaxLogs == 5
MaxOrders == 1
MaxLines == 3
MaxCount == 4

(* Program constants *)

low_stock_threshold == 5

(* An id a client may write in a request that no uuid4() call returns. *)
ClientId == 0

(* The id of a request body that sets none (exclude_unset drops it). *)
Unset == -1

Varieties == {"Sunflower", "Radish"}
item_statuses == {"in-storage", "sold", "waste"}
valid_statuses == {"pending", "confirmed", "completed", "cancelled"}

(* Inputs of the requests *)
IdInputs == 1..MaxUuid
BodyIdInputs == {Unset, ClientId}
BatchVarietyInputs == {"Sunflower"}
ChangeInputs == {-1, 1}
TrayCountInputs == {-1, 0, 1}
QuantityInputs == {-1, 2}
ItemStatusInputs == {"in-storage", "bogus"}
OrderStatusInputs == valid_statuses \cup {"bogus"}

----------------------------------------------------------------------------
(* Helpers *)

RECURSIVE SumSeq(_)
SumSeq(s) == IF s = <<>> THEN 0 ELSE Head(s) + SumSeq(Tail(s))

(* next((i for i, x in enumerate(xs) if x["id"] == id), None): the first   *)
(* position holding the id, 0 standing for None.                           *)
IndexOf(xs, id) ==
    IF \E i \in 1..Len(xs) : xs[i].id = id
    THEN CHOOSE i \in 1..Len(xs) :
            /\ xs[i].id = id
            /\ \A j \in 1..(i-1) : xs[j].id # id
    ELSE 0

(* list.pop(index) *)
Pop(xs, index) == [i \in 1..(Len(xs) - 1) |-> IF i < index THEN xs[i] ELSE xs[i+1]]

Store == [items |-> inventory_items, logs |-> inventory_logs, notifs |-> notifications]

InventoryLog(itemId, change, reason) ==
    [itemId |-> itemId, change |-> change, reason |-> reason]

----------------------------------------------------------------------------
(* adjust_inventory(item_id, change, reason): the result carries the HTTP  *)
(* status it raises (200 when it returns) and the store it leaves.         *)

(* A faulty variant of the check below: nothing is refused. *)
NegativeInventoryUnchecked(new_count) == FALSE

(* line 336: if new_count < 0, the adjustment is refused *)
NegativeInventory(new_count) == new_count < 0

(* A faulty variant of the alert's condition below: the threshold itself   *)
(* counts as low.                                                          *)
LowStockInclusive(change, new_count) == change < 0 /\ new_count <= low_stock_threshold

(* line 352: if change < 0 and new_count < low_stock_threshold *)
LowStock(change, new_count) == change < 0 /\ new_count < low_stock_threshold

(* A faulty variant of send_email_notification below: the failure of the   *)
(* mail server reaches the caller.                                         *)
send_email_notification_raising ==
    CASE smtp = "unconfigured" -> "skipped"
      [] smtp = "delivering"   -> "sent"
      [] smtp = "failing"      -> "raised"

(* send_email_notification: how the call ends. Without settings it returns *)
(* at once; the SMTP session runs inside try, its failure is printed.      *)
send_email_notification ==
    CASE smtp = "unconfigured" -> "skipped"
      [] smtp = "delivering"   -> "sent"
      [] smtp = "failing"      -> "printed"

(* A faulty variant of adjust_inventory: the count is written before the   *)
(* check, and stays written when the check refuses.                        *)
adjust_inventory_write_first(st, item_id, change, reason) ==
    LET index == IndexOf(st.items, item_id) IN
    IF index = 0
    THEN [code |-> 404, store |-> st]
    ELSE LET new_count == st.items[index].trayCount + change
             written == [st EXCEPT !.items[index].trayCount = new_count]
         IN  IF new_count < 0
             THEN [code |-> 400, store |-> written]
             ELSE [code |-> 200,
                   store |-> [written EXCEPT
                                !.logs = Append(st.logs, InventoryLog(item_id, change, reason)),
                                !.notifs = IF change < 0 /\ new_count < low_stock_threshold
                                           THEN st.notifs + 1
                                           ELSE st.notifs]]

adjust_inventory(st, item_id, change, reason) ==
    LET index == IndexOf(st.items, item_id) IN
    IF index = 0
    THEN [code |-> 404, store |-> st]
    ELSE LET current_count == st.items[index].trayCount
             new_count == current_count + change
         IN  IF NegativeInventory(new_count)
             THEN [code |-> 400, store |-> st]
             ELSE [code |-> IF LowStock(change, new_count)
                                /\ send_email_notification = "raised"
                            THEN 500
                            ELSE 200,
                   store |->
                     [items  |-> [st.items EXCEPT ![index].trayCount = new_count],
                      logs   |-> Append(st.logs, InventoryLog(item_id, change, reason)),
                      notifs |-> IF LowStock(change, new_count)
                                 THEN st.notifs + 1
                                 ELSE st.notifs]]

----------------------------------------------------------------------------
(* Module-level construction. The mock data is random; the model starts    *)
(* from one outcome of it: one harvested batch with the log row of its     *)
(* harvest, and no mock order.                                             *)

MockTrayCounts == {1, 2}

MockItems(tray_count) ==
    << [id |-> 1, variety |-> "Sunflower", trayCount |-> tray_count, status |-> "in-storage"] >>

MockLogs(tray_count) ==
    << InventoryLog(1, tray_count, <<"Initial harvest", 0>>) >>

(* Another outcome of the mock data: two batches, one of each variety. *)
MockItemsOfTwo ==
    << [id |-> 1, variety |-> "Sunflower", trayCount |-> 2, status |-> "in-storage"],
       [id |-> 2, variety |-> "Radish", trayCount |-> 2, status |-> "in-storage"] >>

MockLogsOfTwo ==
    << InventoryLog(1, 2, <<"Initial harvest", 0>>),
       InventoryLog(2, 2, <<"Initial harvest", 0>>) >>

(* What the client sees of a request: the handler that served it, the HTTP  *)
(* status and what tells two answers of the same status apart.              *)
Response(op, code, detail) == [op |-> op, code |-> code, detail |-> detail]

Seen(response) == IF tracing THEN response ELSE last

(* The day the server starts. *)
StartDay == 100

(* Nothing is forecast yet. *)
InitForecasting ==
    /\ today = StartDay
    /\ forecasts_cache = << >>
    /\ oracle_calls = 0
    /\ returned = [periodStart |-> 0, periodEnd |-> 0, predictions |-> << >>]

InitStore ==
    /\ InitForecasting
    /\ \E tray_count \in MockTrayCounts :
          /\ inventory_items = MockItems(tray_count)
          /\ inventory_logs = MockLogs(tray_count)
    /\ uuid_count = 1
    /\ orders = <<>>
    /\ notifications = 0
    /\ last = Response("startup", 200, "")

(* The largest batch of the mock data: random.randint(1, 5) trays. *)
MockTrayCountMost == 5

(* A thread outside adjust_inventory. *)
Idle == [pc |-> "idle", item_id |-> 0, change |-> 0, index |-> 0, new_count |-> 0]

Workers == {1, 2}

(* No SMTP_* variable is set unless the deployment sets them. *)
Init ==
    InitStore /\ tracing = FALSE /\ workers = [w \in Workers |-> Idle] /\ smtp = "unconfigured"

InitTraced ==
    InitStore /\ tracing = TRUE /\ workers = [w \in Workers |-> Idle] /\ smtp = "unconfigured"

(* Mail: not configured, configured and delivering, configured and failing *)
(* (connection refused, login rejected, ...).                              *)
SmtpStates == {"unconfigured", "delivering", "failing"}

InitMail ==
    InitStore /\ tracing = TRUE /\ workers = [w \in Workers |-> Idle] /\ smtp \in SmtpStates

(* The server started with two batches. *)
InitOfTwo ==
    /\ InitForecasting
    /\ inventory_items = MockItemsOfTwo
    /\ inventory_logs = MockLogsOfTwo
    /\ uuid_count = 2
    /\ orders = <<>>
    /\ notifications = 0
    /\ last = Response("startup", 200, "")
    /\ tracing = TRUE
    /\ workers = [w \in Workers |-> Idle]
    /\ smtp = "unconfigured"

(* The server started with its one batch at the threshold. *)
InitAtThreshold ==
    /\ InitForecasting
    /\ inventory_items = MockItems(MockTrayCountMost)
    /\ inventory_logs = MockLogs(MockTrayCountMost)
    /\ uuid_count = 1
    /\ orders = <<>>
    /\ notifications = 0
    /\ last = Response("startup", 200, "")
    /\ tracing = TRUE
    /\ workers = [w \in Workers |-> Idle]
    /\ smtp = "unconfigured"

(* The bounds of the model, as guards on the state an action leaves. *)
Bounded ==
    /\ Len(inventory_items') <= MaxItems
    /\ Len(inventory_logs') <= MaxLogs
    /\ Len(orders') <= MaxOrders
    /\ uuid_count' <= MaxUuid
    /\ \A i \in 1..Len(inventory_items') : inventory_items'[i].trayCount <= MaxCount

SetStore(st) ==
    /\ inventory_items' = st.items
    /\ inventory_logs' = st.logs
    /\ notifications' = st.notifs

Raise(op, code, detail) ==
    /\ last' = Seen(Response(op, code, detail))
    /\ UNCHANGED <<inventory_items, inventory_logs, orders, notifications, uuid_count, aside>>

----------------------------------------------------------------------------
(* POST /inventory *)

(* A faulty variant of the handler below: the status is not checked. *)
create_inventory_item_any_status(variety, trayCount, status) ==
    IF trayCount < 0
    THEN Raise("create_inventory_item", 400, "Tray count cannot be negative")
    ELSE LET id == uuid_count + 1
             item_dict == [id |-> id, variety |-> variety,
                           trayCount |-> trayCount, status |-> status]
             appended == [Store EXCEPT !.items = Append(inventory_items, item_dict)]
         IN  \E r \in {adjust_inventory(appended, id, trayCount, <<"Manual creation", 0>>)} :
             /\ uuid_count' = id
             /\ SetStore(r.store)
             /\ last' = Seen(Response("create_inventory_item", 201, ""))
             /\ UNCHANGED <<orders, aside>>
             /\ Bounded

create_inventory_item(variety, trayCount, status) ==
    IF trayCount < 0
    THEN Raise("create_inventory_item", 400, "Tray count cannot be negative")
    ELSE IF status \notin item_statuses
    THEN Raise("create_inventory_item", 400, "Invalid status")
    ELSE LET id == uuid_count + 1
             item_dict == [id |-> id, variety |-> variety,
                           trayCount |-> trayCount, status |-> status]
             appended == [Store EXCEPT !.items = Append(inventory_items, item_dict)]
         IN  \E r \in {adjust_inventory(appended, id, trayCount, <<"Manual creation", 0>>)} :
             /\ uuid_count' = id
             /\ SetStore(r.store)
             /\ last' = Seen(Response("create_inventory_item", 201, ""))
             /\ UNCHANGED <<orders, aside>>
             /\ Bounded

CreateInventoryItem ==
    \E variety \in BatchVarietyInputs, trayCount \in TrayCountInputs, status \in ItemStatusInputs :
        create_inventory_item(variety, trayCount, status)

----------------------------------------------------------------------------
(* PUT /inventory/{item_id}: the body is an InventoryItem; its id is in     *)
(* update_data only when the client sent one (exclude_unset).               *)

(* A faulty variant of the handler below: the tray count of the body is    *)
(* written like its other fields.                                          *)
update_inventory_item_overwriting(item_id, body_id, variety, trayCount, status) ==
    LET index == IndexOf(inventory_items, item_id) IN
    IF index = 0
    THEN Raise("update_inventory_item", 404, "Inventory item not found")
    ELSE IF status \notin item_statuses
    THEN Raise("update_inventory_item", 400, "Invalid status")
    ELSE LET original_item == inventory_items[index]
             updated_item_dict ==
                 [id |-> IF body_id = Unset THEN original_item.id ELSE body_id,
                  variety |-> variety, trayCount |-> trayCount, status |-> status]
         IN  /\ inventory_items' = [inventory_items EXCEPT ![index] = updated_item_dict]
             /\ last' = Seen(Response("update_inventory_item", 200, ""))
             /\ UNCHANGED <<inventory_logs, orders, notifications, uuid_count, aside>>

update_inventory_item(item_id, body_id, variety, trayCount, status) ==
    LET index == IndexOf(inventory_items, item_id) IN
    IF index = 0
    THEN Raise("update_inventory_item", 404, "Inventory item not found")
    ELSE IF status \notin item_statuses
    THEN Raise("update_inventory_item", 400, "Invalid status")
    ELSE IF trayCount # inventory_items[index].trayCount
    THEN Raise("update_inventory_item", 400, "Tray count must be updated via logs")
    ELSE LET original_item == inventory_items[index]
             updated_item_dict ==
                 [id |-> IF body_id = Unset THEN original_item.id ELSE body_id,
                  variety |-> variety, trayCount |-> trayCount, status |-> status]
         IN  /\ inventory_items' = [inventory_items EXCEPT ![index] = updated_item_dict]
             /\ last' = Seen(Response("update_inventory_item", 200, ""))
             /\ UNCHANGED <<inventory_logs, orders, notifications, uuid_count, aside>>

UpdateInventoryItem ==
    \E item_id \in IdInputs, body_id \in BodyIdInputs, variety \in BatchVarietyInputs,
       trayCount \in 0..MaxCount, status \in ItemStatusInputs :
        update_inventory_item(item_id, body_id, variety, trayCount, status)

----------------------------------------------------------------------------
(* DELETE /inventory/{item_id} *)

(* A faulty variant of delete_inventory_item below: the log rows of the    *)
(* batch go with it.                                                       *)
delete_inventory_item_purging(item_id) ==
    LET index == IndexOf(inventory_items, item_id) IN
    IF index = 0
    THEN Raise("delete_inventory_item", 404, "Inventory item not found")
    ELSE \E r \in {adjust_inventory(Store, item_id, -inventory_items[index].trayCount,
                                    <<"Item deleted", 0>>)} :
             /\ inventory_items' = Pop(r.store.items, index)
             /\ inventory_logs' = SelectSeq(r.store.logs, LAMBDA e : e.itemId # item_id)
             /\ notifications' = r.store.notifs
             /\ last' = Seen(Response("delete_inventory_item", 204, ""))
             /\ UNCHANGED <<orders, uuid_count, aside>>
             /\ Bounded

delete_inventory_item(item_id) ==
    LET index == IndexOf(inventory_items, item_id) IN
    IF index = 0
    THEN Raise("delete_inventory_item", 404, "Inventory item not found")
    ELSE \E r \in {adjust_inventory(Store, item_id, -inventory_items[index].trayCount,
                                    <<"Item deleted", 0>>)} :
             /\ inventory_items' = Pop(r.store.items, index)
             /\ inventory_logs' = r.store.logs
             /\ notifications' = r.store.notifs
             /\ last' = Seen(Response("delete_inventory_item", 204, ""))
             /\ UNCHANGED <<orders, uuid_count, aside>>
             /\ Bounded

DeleteInventoryItem == \E item_id \in IdInputs : delete_inventory_item(item_id)

----------------------------------------------------------------------------
(* POST /inventory/{item_id}/log: the ledger's adjust as a request. The    *)
(* reason is the client's free text; the model writes it "client".         *)

create_inventory_log(item_id, body_itemId, change) ==
    IF body_itemId # item_id
    THEN Raise("create_inventory_log", 400, "Log entry itemId must match path item_id")
    ELSE \E r \in {adjust_inventory(Store, item_id, change, <<"client", 0>>)} :
         /\ SetStore(r.store)
         /\ last' = Seen(CASE r.code = 200 -> Response("create_inventory_log", 201, "")
                           [] r.code = 404 -> Response("create_inventory_log", 404,
                                                       "not found for adjustment")
                           [] r.code = 400 -> Response("create_inventory_log", 400,
                                                       "results in negative inventory")
                           [] r.code = 500 -> Response("create_inventory_log", 500,
                                                       "Internal Server Error"))
         /\ UNCHANGED <<orders, uuid_count, aside>>

CreateInventoryLog ==
    \E item_id \in IdInputs, change \in ChangeInputs :
        \E body_itemId \in {item_id, ClientId} :
            /\ create_inventory_log(item_id, body_itemId, change)
            /\ Bounded

(* The same request around the alert's threshold: the changes that take a  *)
(* count of 6 to 5 and to 4, and the credits that bring it to 6.           *)
StockChangeInputs == {-2, -1, 1}

AdjustStock ==
    \E item_id \in IdInputs, change \in StockChangeInputs :
        /\ create_inventory_log(item_id, item_id, change)
        /\ Len(inventory_logs') <= MaxLogs

----------------------------------------------------------------------------
(* POST /orders. order_data.items is a list of lines                       *)
(* [inventoryItemId, variety, quantity, price_per_tray]; the handler reads  *)
(* them in order. Prices are whole units of currency.                      *)

(* price_per_tray: Optional[float] = None, the price of a line that states *)
(* none.                                                                   *)
NoPrice == -1

DefaultPricePerTray == 10

LineInputs ==
    [inventoryItemId : IdInputs, variety : Varieties, quantity : QuantityInputs,
     price_per_tray : {NoPrice}]

(* item_data.price_per_tray or 10.0: Python's `or` takes the right side    *)
(* when the left is None or zero.                                          *)
PricePerTray(price_per_tray) ==
    IF price_per_tray = NoPrice \/ price_per_tray = 0
    THEN DefaultPricePerTray
    ELSE price_per_tray

(* processed_items: the lines, each with the price it was charged at. *)
ProcessedItems(items) ==
    [i \in 1..Len(items) |->
        [items[i] EXCEPT !.price_per_tray = PricePerTray(items[i].price_per_tray)]]

(* total_price: the sum of item_data.quantity * (price_per_tray or 10.0). *)
TotalPrice(items) ==
    SumSeq([i \in 1..Len(items) |->
               items[i].quantity * PricePerTray(items[i].price_per_tray)])

(* order_id = str(uuid.uuid4()): an id no order and no log row carries.    *)
(* The ids are numbered in the order of their first trace.                 *)
NewOrderId ==
    LET seen == {orders[i].id : i \in 1..Len(orders)}
                  \cup {inventory_logs[i].reason[2] : i \in 1..Len(inventory_logs)}
    IN  (CHOOSE id \in seen \cup {0} : \A other \in seen : other <= id) + 1

(* The order ids a client asks about: those of the orders, and one of no   *)
(* order.                                                                  *)
OrderIdInputs == {orders[i].id : i \in 1..Len(orders)} \cup {NewOrderId}

(* The except branch of the loop: credit back what this order debited,     *)
(* each credit in its own try, a failure printed and dropped.              *)
RECURSIVE RevertAdjustments(_, _, _)
RevertAdjustments(st, inventory_adjustments, order_id) ==
    IF inventory_adjustments = <<>>
    THEN st
    ELSE LET adj == Head(inventory_adjustments)
             r == adjust_inventory(st, adj[1], adj[2], <<"Reverted failed order", order_id>>)
         IN  RevertAdjustments(r.store, Tail(inventory_adjustments), order_id)

(* The for loop of create_order from line i on: the status raised (201    *)
(* when the loop ends), the detail, and the store it leaves.               *)
RECURSIVE OrderLoop(_, _, _, _, _)
OrderLoop(st, items, i, inventory_adjustments, order_id) ==
    IF i > Len(items)
    THEN [code |-> 201, detail |-> "", store |-> st]
    ELSE LET item_data == items[i]
             inv_index == IndexOf(st.items, item_data.inventoryItemId)
         IN  IF inv_index = 0
             THEN [code |-> 404, detail |-> "not found", store |-> st]
             ELSE IF st.items[inv_index].variety # item_data.variety
             THEN [code |-> 400, detail |-> "Variety mismatch", store |-> st]
             ELSE LET r == adjust_inventory(st, item_data.inventoryItemId,
                                            -item_data.quantity, <<"Order", order_id>>)
                  IN  IF r.code = 200
                      THEN OrderLoop(r.store, items, i + 1,
                                     Append(inventory_adjustments,
                                            <<item_data.inventoryItemId, item_data.quantity>>),
                                     order_id)
                      ELSE [code |-> 400, detail |-> "Insufficient stock",
                            store |-> RevertAdjustments(st, inventory_adjustments, order_id)]

(* A faulty variant of the status below: the request's status is kept. *)
StatusSupplied(status) == status

(* line 583: order_dict["status"] = "pending", whatever the request held *)
StatusPersisted(status) == "pending"

(* The status field of the request body (Order.status, "pending" when the  *)
(* client sets none).                                                      *)
NewOrderStatusInputs == {"pending", "completed"}

create_order(items) ==
    LET order_id == NewOrderId IN
    \E r \in {OrderLoop(Store, items, 1, <<>>, order_id)} :
        /\ SetStore(r.store)
        /\ \E status \in NewOrderStatusInputs :
              orders' = IF r.code = 201
                        THEN Append(orders, [id |-> order_id,
                                             orderDate |-> today,
                                             status |-> StatusPersisted(status),
                                             items |-> ProcessedItems(items),
                                             total_price |-> TotalPrice(items)])
                        ELSE orders
        /\ last' = Seen(Response("create_order", r.code, r.detail))
        /\ UNCHANGED <<uuid_count, aside>>

(* The proposed orders: every list of at most MaxLines lines that the loop *)
(* reads to its end. A list with a line after the one that raises is       *)
(* served exactly as the list cut there, which is among these.             *)
ReadsOn(prefix) == OrderLoop(Store, prefix, 1, <<>>, 0).code = 201

RECURSIVE Propose(_)
Propose(prefix) ==
    \/ create_order(prefix) /\ Bounded
    \/ /\ Len(prefix) < MaxLines
       /\ ReadsOn(prefix)
       /\ \E line \in LineInputs : Propose(Append(prefix, line))

CreateOrder == Propose(<<>>)

----------------------------------------------------------------------------
(* PUT /orders/{order_id} *)

(* A faulty variant of the loop below: the first credit refused ends it. *)
RECURSIVE CancelLoopStopping(_, _, _)
CancelLoopStopping(st, order_items_list, order_id) ==
    IF order_items_list = <<>>
    THEN st
    ELSE LET item_dict == Head(order_items_list)
             r == adjust_inventory(st, item_dict.inventoryItemId, item_dict.quantity,
                                   <<"cancelled", order_id>>)
         IN  IF r.code = 200
             THEN CancelLoopStopping(r.store, Tail(order_items_list), order_id)
             ELSE st

RECURSIVE CancelLoop(_, _, _)
CancelLoop(st, order_items_list, order_id) ==
    IF order_items_list = <<>>
    THEN st
    ELSE LET item_dict == Head(order_items_list)
             r == adjust_inventory(st, item_dict.inventoryItemId, item_dict.quantity,
                                   <<"cancelled", order_id>>)
         IN  CancelLoop(r.store, Tail(order_items_list), order_id)

(* A faulty variant of the guard below: the status found is not looked at. *)
CancelsAgain(status_val, original_status) == status_val = "cancelled"

(* line 612: the credits run when the new status is "cancelled" and the   *)
(* status found is not.                                                    *)
Cancels(status_val, original_status) ==
    status_val = "cancelled" /\ original_status # "cancelled"

(* The handler as the route `op` runs it, answering `ok` when it returns;  *)
(* the answer's detail is the status the handler found (original_status).  *)
update_order_status_as(op, ok, order_id, status_val) ==
    IF status_val \notin valid_statuses
    THEN Raise(op, 400, "Invalid status")
    ELSE LET index == IndexOf(orders, order_id) IN
         IF index = 0
         THEN Raise(op, 404, "Order not found")
         ELSE LET original_status == orders[index].status IN
              \E st \in {IF Cancels(status_val, original_status)
                         THEN CancelLoop(Store, orders[index].items, order_id)
                         ELSE Store} :
                  /\ SetStore(st)
                  /\ orders' = [orders EXCEPT ![index].status = status_val]
                  /\ last' = Seen(Response(op, ok, original_status))
                  /\ UNCHANGED <<uuid_count, aside>>

update_order_status(order_id, status_val) ==
    update_order_status_as("update_order_status", 200, order_id, status_val)

UpdateOrderStatus ==
    \E order_id \in OrderIdInputs, status_val \in OrderStatusInputs :
        /\ update_order_status(order_id, status_val)
        /\ Bounded

(* DELETE /orders/{order_id} *)
cancel_order(order_id) ==
    update_order_status_as("cancel_order", 204, order_id, "cancelled")

CancelOrder == \E order_id \in OrderIdInputs : cancel_order(order_id) /\ Bounded

(* The same request with room in the log for the credits of an order of    *)
(* two batches after one of them was removed.                              *)
CancelOrderOfTwo ==
    \E order_id \in OrderIdInputs :
        /\ cancel_order(order_id)
        /\ Len(inventory_logs') <= MaxLogs + 1

----------------------------------------------------------------------------
(* GET /historical-sales and GET /forecast. Dates are day numbers; a       *)
(* predicted quantity is kept in tenths of a tray, as round(x, 1) leaves   *)
(* it.                                                                     *)

historical_days == 60

DaysPerWeek == 7

RECURSIVE SortedDates(_)
SortedDates(dates) ==
    IF dates = {}
    THEN << >>
    ELSE LET first == CHOOSE d \in dates : \A other \in dates : d <= other
         IN  <<first>> \o SortedDates(dates \ {first})

(* sum(item["quantity"] for item in order_dict["items"]) *)
TraysInOrder(order_dict) ==
    SumSeq([i \in 1..Len(order_dict.items) |-> order_dict.items[i].quantity])

(* get_historical_sales(days): the completed orders of the last `days`     *)
(* days, their trays summed by day, the days in order.                     *)
get_historical_sales(days) ==
    LET counted == {i \in 1..Len(orders) :
                       /\ orders[i].status = "completed"
                       /\ today - days <= orders[i].orderDate
                       /\ orders[i].orderDate <= today}
        sold_on(d) == SumSeq([k \in 1..Len(orders) |->
                                 IF k \in counted /\ orders[k].orderDate = d
                                 THEN TraysInOrder(orders[k])
                                 ELSE 0])
        dates == SortedDates({orders[i].orderDate : i \in counted})
    IN  [k \in 1..Len(dates) |-> [date |-> dates[k], totalTraysSold |-> sold_on(dates[k])]]

ForecastPoint(date, predictedTrays) == [date |-> date, predictedTrays |-> predictedTrays]

(* round(df["y"].mean(), 1) in tenths, 0 for an empty frame: the nearest   *)
(* tenth, a tie going to the even one.                                     *)
Average(df) ==
    IF df = << >>
    THEN 0
    ELSE LET n == Len(df)
             total == 10 * SumSeq([k \in 1..n |-> df[k].totalTraysSold])
             below == total \div n
             rest == total - below * n
         IN  IF 2 * rest < n THEN below
             ELSE IF 2 * rest > n THEN below + 1
             ELSE IF below % 2 = 0 THEN below ELSE below + 1

(* A faulty variant of the fallback below: the day the period ends is      *)
(* filled too.                                                             *)
FallbackThroughEnd(start_date, weeks, avg) ==
    [i \in 1..(weeks * DaysPerWeek + 1) |-> ForecastPoint(start_date + (i - 1), avg)]

(* The fallback: range(weeks * 7) days from start_date on, each the average. *)
Fallback(start_date, weeks, avg) ==
    [i \in 1..(weeks * DaysPerWeek) |-> ForecastPoint(start_date + (i - 1), avg)]

(* Prophet: fit on the frame, then predict on make_future_dataframe(periods), *)
(* which is the dates of the frame followed by the `periods` days after    *)
(* its last one. What it predicts is the oracle's affair: it raises, or    *)
(* gives every date the same yhat out of a few.                            *)
OracleValues == {25}

OracleOutcomes ==
    {[raises |-> TRUE, yhat |-> 0]} \cup {[raises |-> FALSE, yhat |-> y] : y \in OracleValues}

make_future_dataframe(df, periods) ==
    [k \in 1..(Len(df) + periods) |->
        IF k <= Len(df) THEN df[k].date ELSE df[Len(df)].date + (k - Len(df))]

(* The rows of forecast_df inside the mask start_date <= ds <= end_date. *)
Masked(future, start_date, end_date, yhat) ==
    LET rows == SelectSeq(future, LAMBDA ds : start_date <= ds /\ ds <= end_date)
    IN  [k \in 1..Len(rows) |-> ForecastPoint(rows[k], yhat)]

(* The predictions of a miss, the oracle ending as `outcome` if asked. *)
Predictions(df, start_date, end_date, weeks, outcome) ==
    LET avg == Average(df) IN
    IF Len(df) >= 2 /\ outcome.raises
    THEN Fallback(start_date, weeks, avg)
    ELSE LET predictions ==
                 IF Len(df) >= 2
                 THEN Masked(make_future_dataframe(df, weeks * DaysPerWeek),
                             start_date, end_date, outcome.yhat)
                 ELSE << >>
         IN  IF predictions = << >>
             THEN Fallback(start_date, weeks, avg)
             ELSE predictions

Forecast(periodStart, periodEnd, predictions) ==
    [periodStart |-> periodStart, periodEnd |-> periodEnd, predictions |-> predictions]

(* A faulty variant of the lookup below: nothing is ever found. *)
CachedNever(cache_key) == FALSE

(* line 653: if cache_key in forecasts_cache *)
Cached(cache_key) == cache_key \in DOMAIN forecasts_cache

(* The request served with the oracle ending as `outcome` if it is asked. *)
get_demand_forecast_asking(weeks, outcome) ==
    LET start_date == today
        end_date == start_date + weeks * DaysPerWeek
        cache_key == <<start_date, weeks>>
    IN  IF Cached(cache_key)
        THEN /\ returned' = IF tracing THEN forecasts_cache[cache_key] ELSE returned
             /\ last' = Seen(Response("get_demand_forecast", 200, "cached"))
             /\ UNCHANGED <<inventory_items, inventory_logs, orders, notifications, uuid_count,
                            tracing, workers, smtp, today, forecasts_cache, oracle_calls>>
        ELSE \E df \in {get_historical_sales(historical_days)} :
             \E forecast_result \in
                   {Forecast(start_date, end_date,
                             Predictions(df, start_date, end_date, weeks, outcome))} :
                /\ forecasts_cache' =
                      [k \in DOMAIN forecasts_cache \cup {cache_key} |->
                          IF k = cache_key THEN forecast_result ELSE forecasts_cache[k]]
                /\ oracle_calls' = IF Len(df) >= 2 THEN oracle_calls + 1 ELSE oracle_calls
                /\ returned' = IF tracing THEN forecast_result ELSE returned
                /\ last' = Seen(Response("get_demand_forecast", 200, "computed"))
                /\ UNCHANGED <<inventory_items, inventory_logs, orders, notifications,
                               uuid_count, tracing, workers, smtp, today>>

get_demand_forecast(weeks) ==
    \E outcome \in OracleOutcomes : get_demand_forecast_asking(weeks, outcome)

(* weeks: int = 4; the model asks for one week and for two. *)
WeeksInputs == {1, 2}

GetDemandForecast == \E weeks \in WeeksInputs : get_demand_forecast(weeks)

(* Midnight passes. *)
MaxDays == 1

Tick ==
    /\ today < StartDay + MaxDays
    /\ today' = today + 1
    /\ UNCHANGED <<inventory_items, inventory_logs, orders, notifications, uuid_count, last,
                   tracing, workers, smtp, forecasts_cache, oracle_calls, returned>>

(* The orders the forecast is computed from: mock orders of one tray of    *)
(* batch 1, placed `age` days before the server started, and the orders    *)
(* placed and moved from status to status since.                           *)
MockOrder(id, age, status, quantity) ==
    [id |-> id, orderDate |-> StartDay - age, status |-> status,
     items |-> << [inventoryItemId |-> 1, variety |-> "Sunflower", quantity |-> quantity,
                   price_per_tray |-> DefaultPricePerTray] >>,
     total_price |-> quantity * DefaultPricePerTray]

MockHistories ==
    { << >>,
      << MockOrder(1, 3, "completed", 1) >>,
      << MockOrder(1, 10, "completed", 1), MockOrder(2, 3, "completed", 1) >>,
      << MockOrder(1, 10, "completed", 1), MockOrder(2, 9, "completed", 1) >>,
      << MockOrder(1, 10, "completed", 1), MockOrder(2, 0, "pending", 1) >>,
      << MockOrder(1, 10, "completed", 1), MockOrder(2, 9, "completed", 1),
         MockOrder(3, 3, "completed", 2) >> }

MockOrderLogs(history) ==
    [k \in 1..Len(history) |->
        InventoryLog(1, 0 - TraysInOrder(history[k]), <<"Order", history[k].id>>)]

(* The trays the mock orders took from batch 1. *)
MockSold(history) == SumSeq([k \in 1..Len(history) |-> TraysInOrder(history[k])])

(* The trays batch 1 was harvested with: what was sold and two more, at    *)
(* most the largest mock batch.                                            *)
MockHarvest(history) ==
    IF MockSold(history) + 2 <= MockTrayCountMost
    THEN MockSold(history) + 2
    ELSE MockTrayCountMost

InitWithHistory ==
    /\ InitForecasting
    /\ \E history \in MockHistories :
          /\ orders = history
          /\ inventory_items = MockItems(MockHarvest(history) - MockSold(history))
          /\ inventory_logs = MockLogs(MockHarvest(history)) \o MockOrderLogs(history)
    /\ uuid_count = 1
    /\ notifications = 0
    /\ last = Response("startup", 200, "")
    /\ tracing = TRUE
    /\ workers = [w \in Workers |-> Idle]
    /\ smtp = "unconfigured"

MaxHistory == 2

HistoryBounded ==
    /\ Len(orders') <= MaxHistory
    /\ Len(inventory_logs') <= MaxLogs
    /\ \A i \in 1..Len(inventory_items') : inventory_items'[i].trayCount <= MaxCount

(* Orders of one line on batch 1, and the statuses that change what is    *)
(* counted as sold.                                                        *)
HistoryLineInputs ==
    [inventoryItemId : {1}, variety : {"Sunflower"}, quantity : {2}, price_per_tray : {NoPrice}]

HistoryStatusInputs == {"completed", "cancelled"}

PlaceOrder ==
    \E line \in HistoryLineInputs : create_order(<<line>>) /\ HistoryBounded

SetOrderStatus ==
    \E order_id \in {orders[i].id : i \in 1..Len(orders)}, status_val \in HistoryStatusInputs :
        update_order_status(order_id, status_val) /\ HistoryBounded

NextForecast ==
    \/ GetDemandForecast
    \/ PlaceOrder
    \/ SetOrderStatus
    \/ Tick

----------------------------------------------------------------------------
(* adjust_inventory statement by statement, as the threads of the server's *)
(* pool run it for POST /inventory/{item_id}/log: nothing in the code      *)
(* keeps two of them apart. A subscript past the end of the list (another  *)
(* request popped an item meanwhile) raises IndexError and ends the call.  *)

(* line 329-331: index = next(...); 404 when there is none *)
AdjustLookup(w, item_id, change) ==
    /\ workers[w].pc = "idle"
    /\ LET index == IndexOf(inventory_items, item_id) IN
       /\ index # 0
       /\ workers' = [workers EXCEPT ![w] =
                        [pc |-> "read", item_id |-> item_id, change |-> change,
                         index |-> index, new_count |-> 0]]
    /\ UNCHANGED <<inventory_items, inventory_logs, orders, notifications, uuid_count,
                   last, tracing, smtp, forecasting>>

(* line 333-337: read the count, add, raise 400 when the sum is negative *)
AdjustRead(w) ==
    /\ workers[w].pc = "read"
    /\ LET index == workers[w].index IN
       IF index > Len(inventory_items)
       THEN workers' = [workers EXCEPT ![w] = Idle]
       ELSE LET current_count == inventory_items[index].trayCount
                new_count == current_count + workers[w].change
            IN  IF NegativeInventory(new_count)
                THEN workers' = [workers EXCEPT ![w] = Idle]
                ELSE workers' = [workers EXCEPT ![w].pc = "write", ![w].new_count = new_count]
    /\ UNCHANGED <<inventory_items, inventory_logs, orders, notifications, uuid_count,
                   last, tracing, smtp, forecasting>>

(* line 339: inventory_items[index]["trayCount"] = new_count *)
AdjustWrite(w) ==
    /\ workers[w].pc = "write"
    /\ LET index == workers[w].index IN
       IF index > Len(inventory_items)
       THEN /\ workers' = [workers EXCEPT ![w] = Idle]
            /\ UNCHANGED inventory_items
       ELSE /\ inventory_items' =
                 [inventory_items EXCEPT ![index].trayCount = workers[w].new_count]
            /\ workers' = [workers EXCEPT ![w].pc = "log"]
    /\ UNCHANGED <<inventory_logs, orders, notifications, uuid_count, last, tracing, smtp, forecasting>>
    /\ Bounded

(* line 341-358: append the log row, then the low-stock alert *)
AdjustLog(w) ==
    /\ workers[w].pc = "log"
    /\ inventory_logs' = Append(inventory_logs,
                                InventoryLog(workers[w].item_id, workers[w].change,
                                             <<"client", 0>>))
    /\ notifications' =
          IF /\ LowStock(workers[w].change, workers[w].new_count)
             /\ workers[w].index <= Len(inventory_items)
          THEN notifications + 1
          ELSE notifications
    /\ workers' = [workers EXCEPT ![w] = Idle]
    /\ UNCHANGED <<inventory_items, orders, uuid_count, last, tracing, smtp, forecasting>>
    /\ Bounded

Adjusting ==
    \E w \in Workers :
        \/ \E item_id \in IdInputs, change \in ChangeInputs : AdjustLookup(w, item_id, change)
        \/ AdjustRead(w)
        \/ AdjustWrite(w)
        \/ AdjustLog(w)

----------------------------------------------------------------------------
(* Specifications *)

NextLedger ==
    \/ CreateInventoryItem
    \/ UpdateInventoryItem
    \/ DeleteInventoryItem
    \/ CreateInventoryLog

NextOrders ==
    \/ CreateOrder
    \/ UpdateOrderStatus
    \/ CancelOrder

Next == NextLedger \/ NextOrders

(* Every request of every kind, in any order. *)
Spec == Init /\ [][Next]_vars

(* The ledger's requests, their answers kept. *)
SpecLedger == InitTraced /\ [][NextLedger]_vars

(* The order requests, their answers kept. *)
SpecOrders == InitTraced /\ [][NextOrders]_vars

(* Batches updated while orders are placed and moved from status to       *)
(* status, the answers kept.                                               *)
NextUpdates ==
    \/ UpdateInventoryItem
    \/ CreateOrder
    \/ UpdateOrderStatus

SpecUpdates == InitTraced /\ [][NextUpdates]_vars

(* Orders of one or two lines on batch 1, a price stated or not, placed on *)
(* the batch of five trays; two orders at most.                           *)
PricedLineInputs ==
    [inventoryItemId : {1}, variety : {"Sunflower"}, quantity : {1, 2},
     price_per_tray : {NoPrice, 0, 3}]

PricedOrderInputs ==
    {<<line>> : line \in PricedLineInputs}
        \cup {<<first, second>> : first \in PricedLineInputs, second \in PricedLineInputs}

PlacePricedOrder ==
    \E items \in PricedOrderInputs :
        /\ create_order(items)
        /\ Len(orders') <= MaxOrders + 1
        /\ Len(inventory_logs') <= MaxLogs

SpecPrice == InitAtThreshold /\ [][PlacePricedOrder]_vars

(* Concurrent adjustments, with batches created and removed meanwhile. *)
NextConcurrent ==
    \/ Adjusting
    \/ CreateInventoryItem
    \/ DeleteInventoryItem

SpecConcurrent == Init /\ [][NextConcurrent]_vars

(* Adjustments around the alert's threshold, their answers kept. *)
SpecLowStock == InitAtThreshold /\ [][AdjustStock]_vars

(* Orders over two batches, created and cancelled while batches are        *)
(* removed, their answers kept.                                            *)
NextCancel ==
    \/ CreateOrder
    \/ DeleteInventoryItem
    \/ CancelOrderOfTwo

SpecCancel == InitOfTwo /\ [][NextCancel]_vars

(* Adjustments under every state of the mail settings, their answers kept. *)
SpecMail == InitMail /\ [][CreateInventoryLog]_vars

(* Forecasts asked while orders are placed, completed and cancelled and    *)
(* days pass, the answers kept.                                            *)
SpecForecast == InitWithHistory /\ [][NextForecast]_vars

----------------------------------------------------------------------------
(* update_order_status with status "cancelled" as the threads of the       *)
(* server's pool run it for PUT /orders/{order_id} and DELETE              *)
(* /orders/{order_id}: nothing in the code keeps two of them apart. A      *)
(* thread keeps the order's id in item_id and its position in index; each  *)
(* call of adjust_inventory is taken whole.                                *)

(* line 604-612: find the order, read its status, choose the branch *)
CancelLookup(w, order_id) ==
    /\ workers[w].pc = "idle"
    /\ LET index == IndexOf(orders, order_id) IN
       /\ index # 0
       /\ workers' = [workers EXCEPT ![w] =
                        [pc |-> IF Cancels("cancelled", orders[index].status)
                                THEN "credit"
                                ELSE "assign",
                         item_id |-> order_id, change |-> 0,
                         index |-> index, new_count |-> 0]]
    /\ UNCHANGED <<inventory_items, inventory_logs, orders, notifications, uuid_count,
                   last, tracing, smtp, forecasting>>

(* line 613-618: the credits, line by line *)
CancelCredit(w) ==
    /\ workers[w].pc = "credit"
    /\ SetStore(CancelLoop(Store, orders[workers[w].index].items, workers[w].item_id))
    /\ workers' = [workers EXCEPT ![w].pc = "assign"]
    /\ UNCHANGED <<orders, uuid_count, last, tracing, smtp, forecasting>>

(* line 625: orders[index]["status"] = status_val *)
CancelAssign(w) ==
    /\ workers[w].pc = "assign"
    /\ orders' = [orders EXCEPT ![workers[w].index].status = "cancelled"]
    /\ workers' = [workers EXCEPT ![w] = Idle]
    /\ UNCHANGED <<inventory_items, inventory_logs, notifications, uuid_count,
                   last, tracing, smtp, forecasting>>

Cancelling ==
    \E w \in Workers :
        \/ \E order_id \in OrderIdInputs : CancelLookup(w, order_id)
        \/ CancelCredit(w)
        \/ CancelAssign(w)

(* Orders placed on the batch of five trays and cancelled by concurrent    *)
(* requests.                                                               *)
NextCancelling ==
    \/ PlaceOrder
    \/ Cancelling

SpecCancelling == InitAtThreshold /\ [][NextCancelling]_vars

(* Concurrent adjustments alone, on the batches the server starts with. *)
SpecAdjusting == Init /\ [][Adjusting]_vars

----------------------------------------------------------------------------
(* Properties *)

(* The log rows of a batch, by the reasons they were written for. *)
LogChanges(logs, item_id, reasons) ==
    LET rows == SelectSeq(logs, LAMBDA e : e.itemId = item_id /\ e.reason \in reasons)
    IN  SumSeq([i \in 1..Len(rows) |-> rows[i].change])

LogTotal(logs, item_id) ==
    LET rows == SelectSeq(logs, LAMBDA e : e.itemId = item_id)
    IN  SumSeq([i \in 1..Len(rows) |-> rows[i].change])

(* What a step added to the log. *)
Added == SubSeq(inventory_logs', Len(inventory_logs) + 1, Len(inventory_logs'))

(* The step is the answer `code`, `detail` of the handler `op`. *)
Answers(op, code, detail) == last' = Response(op, code, detail)

(* C1: conservation. The trayCount of every batch in the inventory equals  *)
(* the sum of the changes of all the log rows of that batch.               *)
C1_Conservation ==
    \A i \in 1..Len(inventory_items) :
        inventory_items[i].trayCount = LogTotal(inventory_logs, inventory_items[i].id)

(* C2: no batch ever has a negative trayCount, whatever the interleaving   *)
(* of the adjustments running at once.                                     *)
C2_NonNegative ==
    \A i \in 1..Len(inventory_items) : inventory_items[i].trayCount >= 0

(* Two threads are inside adjust_inventory on the same batch, both         *)
(* debiting: one has written its count, the other is about to write the    *)
(* count it computed from what it read before.                             *)
C2_Witness ==
    \E w1, w2 \in Workers :
        /\ w1 # w2
        /\ workers[w1].pc = "log" /\ workers[w2].pc = "write"
        /\ workers[w1].index = workers[w2].index
        /\ workers[w1].change < 0 /\ workers[w2].change < 0

(* C3: an adjustment that fails changes nothing. When the batch is not in  *)
(* the inventory the answer is 404, when the count plus the change is      *)
(* negative the answer is 400, and in both cases every trayCount, the log  *)
(* and the notifications are as they were before the request.              *)
C3_FailedAdjustChangesNothing ==
    [][\A item_id \in IdInputs, change \in ChangeInputs :
          create_inventory_log(item_id, item_id, change) =>
             LET index == IndexOf(inventory_items, item_id) IN
             /\ index = 0 =>
                   /\ Answers("create_inventory_log", 404, "not found for adjustment")
                   /\ UNCHANGED ledger
             /\ (index # 0 /\ inventory_items[index].trayCount + change < 0) =>
                   /\ Answers("create_inventory_log", 400, "results in negative inventory")
                   /\ UNCHANGED ledger]_vars

(* An adjustment was refused because it would make the count negative. *)
C3_Witness ==
    last = Response("create_inventory_log", 400, "results in negative inventory")

(* C4: order creation is atomic on insufficient stock. When the debit of   *)
(* a line is refused, every batch has the trayCount it had before the      *)
(* call, the log shows each debit followed by an equal credit, and no      *)
(* order is added.                                                         *)
C4_AtomicOnInsufficientStock ==
    [][Answers("create_order", 400, "Insufficient stock") =>
          /\ inventory_items' = inventory_items
          /\ orders' = orders
          /\ Len(inventory_logs') >= Len(inventory_logs)
          /\ LET debits == Len(Added) \div 2 IN
             /\ Len(Added) = 2 * debits
             /\ \A j \in 1..debits :
                   /\ Added[debits + j].itemId = Added[j].itemId
                   /\ Added[debits + j].change = 0 - Added[j].change]_vars

(* C5: when a line after the first names a batch that is not in the        *)
(* inventory, create_order fails with 404 and the debits of the lines      *)
(* before it are reversed: every trayCount is what it was before the call  *)
(* and no order is added.                                                  *)
C5_RollbackOnNotFound ==
    [][Answers("create_order", 404, "not found") =>
          /\ inventory_items' = inventory_items
          /\ orders' = orders]_vars

(* C6: variety validation precedes reservation. When a line states a       *)
(* variety other than its batch's, create_order fails with "Variety        *)
(* mismatch" and no trayCount and no log row has changed.                  *)
C6_VarietyCheckedBeforeDebit ==
    [][Answers("create_order", 400, "Variety mismatch") =>
          UNCHANGED <<inventory_items, inventory_logs, orders>>]_vars

(* The lines are as the order model wants them: each quantity above 0. *)
PositiveLines(items) == \A i \in 1..Len(items) : items[i].quantity > 0

(* C7: reversal happens once. For every order (of positive quantities) and *)
(* every batch, what the cancellation credits of the order gave back to    *)
(* the batch is at most what the debits of its creation took.              *)
C7_ReversalOnce ==
    \A o \in 1..Len(orders) : \A item_id \in IdInputs :
        PositiveLines(orders[o].items) =>
        LogChanges(inventory_logs, item_id, {<<"cancelled", orders[o].id>>})
           <= 0 - LogChanges(inventory_logs, item_id, {<<"Order", orders[o].id>>})

(* C8: cancellation is idempotent. cancel_order on an order found          *)
(* cancelled answers as the first did and changes no trayCount, no log     *)
(* row, no notification and no order.                                      *)
C8_CancelIdempotent ==
    [][Answers("cancel_order", 204, "cancelled") =>
          UNCHANGED <<inventory_items, inventory_logs, notifications, orders>>]_vars

(* cancel_order has answered on an order that was cancelled already. *)
C8_Witness ==
    /\ last = Response("cancel_order", 204, "cancelled")
    /\ \E o \in 1..Len(orders) :
          /\ orders[o].status = "cancelled"
          /\ \E item_id \in IdInputs :
                LogChanges(inventory_logs, item_id, {<<"cancelled", orders[o].id>>}) > 0

(* C9: terminal statuses are final for the ledger. A status request on an  *)
(* order found completed or cancelled applies no adjustment.               *)
C9_TerminalIsLedgerFinal ==
    [][(\E op \in {"update_order_status", "cancel_order"}, code \in {200, 204},
           found \in {"completed", "cancelled"} : Answers(op, code, found)) =>
          UNCHANGED <<inventory_items, inventory_logs>>]_vars

LineQuantities(items, item_id) ==
    LET rows == SelectSeq(items, LAMBDA line : line.inventoryItemId = item_id)
    IN  SumSeq([i \in 1..Len(rows) |-> rows[i].quantity])

(* C10: reservation. For every order (of positive quantities) that is not  *)
(* cancelled and every batch, the net of the adjustments made for the      *)
(* order is minus the sum of the quantities of its lines on that batch.    *)
C10_Reservation ==
    \A o \in 1..Len(orders) :
        (orders[o].status # "cancelled" /\ PositiveLines(orders[o].items)) =>
           \A item_id \in IdInputs :
              LogChanges(inventory_logs, item_id,
                         {<<"Order", orders[o].id>>, <<"cancelled", orders[o].id>>,
                          <<"Reverted failed order", orders[o].id>>})
                 = 0 - LineQuantities(orders[o].items, item_id)


(* C11: no lost update. When the adjustments running at once have all      *)
(* returned, the trayCount of every batch is its initial count plus the    *)
(* change of every adjustment that succeeded, each of them in the log:     *)
(* the count equals the sum of the batch's log rows.                       *)
C11_NoLostUpdate ==
    (\A w \in Workers : workers[w].pc = "idle") =>
        \A i \in 1..Len(inventory_items) :
            inventory_items[i].trayCount = LogTotal(inventory_logs, inventory_items[i].id)

(* C12: successful order creation. When create_order answers 201 it has    *)
(* added one log row per line, in line order, each the debit of the line's *)
(* quantity on the line's batch; every batch has lost exactly the          *)
(* quantities of its lines; one order is added, holding those lines, and   *)
(* its status is pending whatever status the request carried.              *)
C12_SuccessfulCreation ==
    [][Answers("create_order", 201, "") =>
          /\ Len(orders') = Len(orders) + 1
          /\ SubSeq(orders', 1, Len(orders)) = orders
          /\ LET order == orders'[Len(orders')] IN
             /\ order.status = "pending"
             /\ \A o \in 1..Len(orders) : orders[o].id # order.id
             /\ Len(inventory_logs') = Len(inventory_logs) + Len(order.items)
             /\ SubSeq(inventory_logs', 1, Len(inventory_logs)) = inventory_logs
             /\ \A j \in 1..Len(order.items) :
                   /\ Added[j].itemId = order.items[j].inventoryItemId
                   /\ Added[j].change = 0 - order.items[j].quantity
                   /\ Added[j].reason = <<"Order", order.id>>
             /\ Len(inventory_items') = Len(inventory_items)
             /\ \A i \in 1..Len(inventory_items) :
                   inventory_items'[i] =
                      [inventory_items[i] EXCEPT
                         !.trayCount = @ - LineQuantities(order.items, inventory_items[i].id)]]_vars

(* An order of two lines was created. *)
C12_Witness ==
    /\ last = Response("create_order", 201, "")
    /\ \E o \in 1..Len(orders) :
          /\ Len(orders[o].items) >= 2
          /\ orders[o].status = "pending"

(* C13: low-stock trigger. An adjustment that succeeds with a negative     *)
(* change and a new count strictly under the threshold adds exactly one    *)
(* notification; every other adjustment (a refused one, a credit, a debit  *)
(* leaving the count at the threshold or above) adds none. With the        *)
(* threshold 5, 6 to 5 adds none and 6 to 4 adds one.                      *)
C13_LowStockTrigger ==
    [][\A item_id \in IdInputs, change \in StockChangeInputs :
          create_inventory_log(item_id, item_id, change) =>
             LET index == IndexOf(inventory_items, item_id)
                 newCount == inventory_items[index].trayCount + change
             IN  notifications' - notifications =
                    IF index # 0 /\ newCount >= 0 /\ change < 0 /\ newCount < 5
                    THEN 1
                    ELSE 0]_vars

(* The batch went from 6 to 5 and no notification was added, then from 5   *)
(* to 6 again and from 6 to 4, which added the first one.                  *)
C13_Witness ==
    /\ Len(inventory_logs) = 5
    /\ inventory_logs[2].change = 1
    /\ inventory_logs[3].change = -1
    /\ inventory_logs[4].change = 1
    /\ inventory_logs[5].change = -2
    /\ inventory_items[1].trayCount = 4
    /\ notifications = 1

C15_CreationEstablishesLedger ==
    [][\A variety \in BatchVarietyInputs, n \in TrayCountInputs, status \in ItemStatusInputs :
          (/\ create_inventory_item(variety, n, status)
           /\ n >= 0
           /\ status \in item_statuses) =>
             LET item == inventory_items'[Len(inventory_items')]
                 rows == SelectSeq(inventory_logs', LAMBDA e : e.itemId = item.id)
             IN  /\ Len(inventory_items') = Len(inventory_items) + 1
                 /\ item.trayCount = n
                 /\ Len(rows) = 1
                 /\ rows[1].change = n]_vars

(* The lines of an order whose batch is in the inventory. *)
LiveLines(items) ==
    SelectSeq(items, LAMBDA line : IndexOf(inventory_items, line.inventoryItemId) # 0)

(* C16: cancellation is best-effort but always recorded. When an order     *)
(* (of positive quantities) found not cancelled is cancelled, its status   *)
(* becomes cancelled and every line whose batch is still in the inventory  *)
(* is credited, in line order, whether or not the credit of another line   *)
(* failed because its batch was removed.                                   *)
C16_CancelBestEffort ==
    [][\A found \in valid_statuses \ {"cancelled"} :
          Answers("cancel_order", 204, found) =>
             \E o \in 1..Len(orders) :
                /\ orders[o].status = found
                /\ orders' = [orders EXCEPT ![o].status = "cancelled"]
                /\ PositiveLines(orders[o].items) =>
                      LET live == LiveLines(orders[o].items) IN
                      /\ Len(inventory_logs') = Len(inventory_logs) + Len(live)
                      /\ \A j \in 1..Len(live) :
                            Added[j] = InventoryLog(live[j].inventoryItemId, live[j].quantity,
                                                    <<"cancelled", orders[o].id>>)
                      /\ Len(inventory_items') = Len(inventory_items)
                      /\ \A i \in 1..Len(inventory_items) :
                            inventory_items'[i].trayCount =
                               inventory_items[i].trayCount
                                  + LineQuantities(orders[o].items, inventory_items[i].id)]_vars

(* An order on two batches was cancelled after its first batch was         *)
(* removed: the second batch has its trays back.                           *)
C16_Witness ==
    /\ last = Response("cancel_order", 204, "pending")
    /\ \E o \in 1..Len(orders) :
          /\ orders[o].status = "cancelled"
          /\ Len(orders[o].items) = 2
          /\ PositiveLines(orders[o].items)
          /\ IndexOf(inventory_items, orders[o].items[1].inventoryItemId) = 0
          /\ inventory_logs[Len(inventory_logs)] =
                InventoryLog(orders[o].items[2].inventoryItemId, orders[o].items[2].quantity,
                             <<"cancelled", orders[o].id>>)

(* C17: the log is append-only. No step removes or changes a log row: the  *)
(* log before a step is a prefix of the log after it, also when the step   *)
(* removes the batch of some rows.                                         *)
C17_AppendOnlyLog ==
    [][/\ Len(inventory_logs') >= Len(inventory_logs)
       /\ SubSeq(inventory_logs', 1, Len(inventory_logs)) = inventory_logs]_vars

(* A batch was removed and its log rows are still there, the row of its    *)
(* removal the last of them.                                               *)
C17_Witness ==
    /\ last = Response("delete_inventory_item", 204, "")
    /\ Len(inventory_logs) >= 2
    /\ LET removal == inventory_logs[Len(inventory_logs)] IN
       /\ removal.reason = <<"Item deleted", 0>>
       /\ IndexOf(inventory_items, removal.itemId) = 0
       /\ \E k \in 1..(Len(inventory_logs) - 1) : inventory_logs[k].itemId = removal.itemId

(* C18: removeBatch ordering. Removing an unknown id answers 404 and       *)
(* changes nothing. Removing a batch with count c appends a log row with   *)
(* change -c and then retires the batch: the batch is gone, the log rows   *)
(* of the batch sum to zero and every other batch is as it was.            *)
C18_RemoveBatchOrdering ==
    [][\A item_id \in IdInputs :
          delete_inventory_item(item_id) =>
             LET index == IndexOf(inventory_items, item_id) IN
             /\ index = 0 =>
                   /\ Answers("delete_inventory_item", 404, "Inventory item not found")
                   /\ UNCHANGED <<ledger, orders>>
             /\ index # 0 =>
                   /\ Answers("delete_inventory_item", 204, "")
                   /\ inventory_logs' =
                         Append(inventory_logs,
                                InventoryLog(item_id, 0 - inventory_items[index].trayCount,
                                             <<"Item deleted", 0>>))
                   /\ inventory_items' = Pop(inventory_items, index)
                   /\ LogTotal(inventory_logs', item_id) = 0]_vars

(* The cache key of the forecast a GET /forecast step returned; the day    *)
(* does not change in such a step, as it does when midnight passes.        *)
ReturnedKey == <<today, (returned'.periodEnd - returned'.periodStart) \div DaysPerWeek>>

(* C19: forecast cache hit. Every forecast returned is stored under its    *)
(* key and stays there unchanged; once the key (today, weeks) is in the    *)
(* cache, GET /forecast with that number of weeks returns the period and   *)
(* the predictions stored, and Prophet is not fitted again, whatever       *)
(* orders were placed, completed or cancelled since.                       *)
C19_ForecastCacheHit ==
    [][/\ \A k \in DOMAIN forecasts_cache :
             k \in DOMAIN forecasts_cache' /\ forecasts_cache'[k] = forecasts_cache[k]
       /\ (last'.op = "get_demand_forecast" /\ today' = today) =>
             /\ ReturnedKey \in DOMAIN forecasts_cache'
             /\ forecasts_cache'[ReturnedKey] = returned'
             /\ ReturnedKey \in DOMAIN forecasts_cache =>
                   /\ returned' = forecasts_cache[ReturnedKey]
                   /\ oracle_calls' = oracle_calls]_vars

(* A forecast was returned from the cache although the sales it was        *)
(* computed from have changed since: computed now, it would be another.    *)
C19_Witness ==
    /\ last = Response("get_demand_forecast", 200, "cached")
    /\ <<today, 1>> \in DOMAIN forecasts_cache
    /\ returned = forecasts_cache[<<today, 1>>]
    /\ \A outcome \in OracleOutcomes :
          returned.predictions #
             Predictions(get_historical_sales(historical_days), today,
                         today + DaysPerWeek, 1, outcome)

(* The oracle's dates all fall outside start_date <= ds <= end_date. *)
NoneInWindow(df, weeks) ==
    LET future == make_future_dataframe(df, weeks * DaysPerWeek) IN
    \A k \in 1..Len(future) : future[k] < today \/ future[k] > today + weeks * DaysPerWeek

(* GET /forecast for `weeks` weeks misses the cache and the fallback is    *)
(* due: too little history, the oracle raising, or none of its dates in    *)
(* the window.                                                             *)
FallbackDue(weeks, outcome) ==
    /\ last'.op = "get_demand_forecast"
    /\ <<today, weeks>> \notin DOMAIN forecasts_cache
    /\ \E df \in {get_historical_sales(historical_days)} :
          \/ Len(df) < 2
          \/ outcome.raises
          \/ NoneInWindow(df, weeks)
    /\ get_demand_forecast_asking(weeks, outcome)

(* The forecast returned has one prediction for each day of                *)
(* [today, today + 7 * weeks), in order.                                   *)
OnePerDay(weeks) ==
    /\ last' = Response("get_demand_forecast", 200, "computed")
    /\ returned'.periodStart = today
    /\ Len(returned'.predictions) = 7 * weeks
    /\ \A i \in 1..(7 * weeks) : returned'.predictions[i].date = today + (i - 1)

(* The sales of the window: how many days have some, and their total. *)
SalesDays == Len(get_historical_sales(historical_days))

SalesTotal ==
    LET df == get_historical_sales(historical_days)
    IN  SumSeq([k \in 1..Len(df) |-> df[k].totalTraysSold])

(* C20 as the code has it: on a cache miss with fewer than two days of     *)
(* sales, or the oracle raising, or none of the oracle's dates in the      *)
(* window, GET /forecast answers 200 with one prediction for each day of   *)
(* [today, today + 7 * weeks), all of the same value: the mean of the      *)
(* daily sales rounded to one decimal (within half a tenth of the mean),   *)
(* or zero when there are no sales.                                        *)
C20_FallbackRoundedMean ==
    [][\A weeks \in WeeksInputs, outcome \in OracleOutcomes :
          FallbackDue(weeks, outcome) =>
             /\ OnePerDay(weeks)
             /\ \E days \in {SalesDays}, total \in {SalesTotal} :
                   \A i \in 1..(7 * weeks) :
                      LET tenths == returned'.predictions[i].predictedTrays IN
                      IF days = 0
                      THEN tenths = 0
                      ELSE /\ 2 * (10 * total - tenths * days) <= days
                           /\ 2 * (tenths * days - 10 * total) <= days]_vars

(* C20: forecast fallback. On a cache miss with fewer than two days of     *)
(* sales, or the oracle raising, or none of the oracle's dates in the      *)
(* window, GET /forecast does not fail and returns one prediction for each *)
(* day of [today, today + 7 * weeks), all of the same value: the mean of   *)
(* the daily sales, or zero when there are no sales.                       *)
C20_FallbackMean ==
    [][\A weeks \in WeeksInputs, outcome \in OracleOutcomes :
          FallbackDue(weeks, outcome) =>
             /\ OnePerDay(weeks)
             /\ \E days \in {SalesDays}, total \in {SalesTotal} :
                   \A i \in 1..(7 * weeks) :
                      LET tenths == returned'.predictions[i].predictedTrays IN
                      IF days = 0
                      THEN tenths = 0
                      ELSE tenths * days = 10 * total]_vars

(* The oracle was asked about three days of sales, four trays in all, and  *)
(* the fallback filled the week with 1.3.                                  *)
C20_Witness ==
    /\ last = Response("get_demand_forecast", 200, "computed")
    /\ oracle_calls >= 1
    /\ SalesDays = 3
    /\ SalesTotal = 4
    /\ returned = [periodStart |-> today, periodEnd |-> today + 7,
                   predictions |-> [i \in 1..7 |-> ForecastPoint(today + (i - 1), 13)]]

(* C21: forecast window. Every prediction of a forecast returned by GET    *)
(* /forecast, computed by the oracle or by the fallback, has a date d with *)
(* today <= d < today + 7 * weeks.                                         *)
C21_ForecastWindow ==
    [][(last'.op = "get_demand_forecast" /\ today' = today) =>
          \A i \in 1..Len(returned'.predictions) :
             /\ today <= returned'.predictions[i].date
             /\ returned'.predictions[i].date < returned'.periodEnd]_vars

(* C22: one-directional status. An order that is cancelled or completed    *)
(* keeps that status under every later status update, and a confirmed      *)
(* order never returns to pending; stated of the orders that have lines,   *)
(* each of a positive quantity.                                            *)
C22_OneDirectionalStatus ==
    [][\A i \in 1..Len(orders) :
          (orders[i].items # << >> /\ PositiveLines(orders[i].items)) =>
          /\ orders[i].status \in {"cancelled", "completed"} =>
                orders'[i].status = orders[i].status
          /\ orders[i].status = "confirmed" => orders'[i].status # "pending"]_vars

(* C23: an order proposed with zero lines is rejected by create_order: no  *)
(* order is persisted and the ledger is unchanged.                         *)
C23_EmptyOrderRejected ==
    [][create_order(<< >>) =>
          /\ last'.code # 201
          /\ UNCHANGED <<orders, inventory_items, inventory_logs>>]_vars

(* C24: POST /inventory with trayCount < 0 or with a status outside        *)
(* {in-storage, sold, waste} fails with 400 (InvalidArgument), and neither *)
(* a batch nor a log entry is added.                                       *)
C24_CreateBatchValidates ==
    [][\A variety \in BatchVarietyInputs, trayCount \in TrayCountInputs,
          status \in ItemStatusInputs :
          (/\ trayCount < 0 \/ status \notin {"in-storage", "sold", "waste"}
           /\ create_inventory_item(variety, trayCount, status)) =>
             /\ last'.op = "create_inventory_item"
             /\ last'.code = 400
             /\ UNCHANGED <<inventory_items, inventory_logs>>]_vars

(* A request with a status outside the set was refused, beside the batches  *)
(* created.                                                                *)
C24_Witness ==
    /\ last = Response("create_inventory_item", 400, "Invalid status")
    /\ Len(inventory_items) = MaxItems

(* C25: trayCount is written only by adjust. PUT /inventory/{item_id}      *)
(* changes no batch's trayCount and appends no log entry; it leaves the    *)
(* batches unchanged when it refuses, and it accepts no body whose         *)
(* trayCount is not the batch's. A status update of an order to confirmed  *)
(* or completed changes no batch and appends no log entry.                 *)
C25_TrayCountOnlyByAdjust ==
    [][/\ last'.op = "update_inventory_item" =>
             /\ Len(inventory_items') = Len(inventory_items)
             /\ \A i \in 1..Len(inventory_items) :
                   inventory_items'[i].trayCount = inventory_items[i].trayCount
             /\ inventory_logs' = inventory_logs
             /\ last'.code # 200 => inventory_items' = inventory_items
             /\ last'.code = 200 =>
                   \A item_id \in IdInputs, body_id \in BodyIdInputs,
                      variety \in BatchVarietyInputs, trayCount \in 0..MaxCount,
                      status \in ItemStatusInputs :
                      update_inventory_item(item_id, body_id, variety, trayCount, status) =>
                         inventory_items[IndexOf(inventory_items, item_id)].trayCount = trayCount
       /\ last'.op = "update_order_status" =>
             \A order_id \in OrderIdInputs, status_val \in {"confirmed", "completed"} :
                update_order_status(order_id, status_val) =>
                   /\ inventory_items' = inventory_items
                   /\ inventory_logs' = inventory_logs]_vars

(* An update with another tray count was refused while an order with lines *)
(* stands completed.                                                       *)
C25_Witness ==
    /\ last = Response("update_inventory_item", 400, "Tray count must be updated via logs")
    /\ \E o \in 1..Len(orders) :
          /\ orders[o].status = "completed"
          /\ orders[o].items # << >>

(* C26: batch identity is stable and unique. No two batches of the list    *)
(* share an id, and no request other than DELETE /inventory/{item_id}      *)
(* changes the id of a batch that exists; PUT /inventory/{item_id} in      *)
(* particular does not.                                                    *)
C26_BatchIdentity ==
    [][/\ \A i, j \in 1..Len(inventory_items') :
             inventory_items'[i].id = inventory_items'[j].id => i = j
       /\ last'.op # "delete_inventory_item" =>
             /\ Len(inventory_items') >= Len(inventory_items)
             /\ \A i \in 1..Len(inventory_items) :
                   inventory_items'[i].id = inventory_items[i].id]_vars

(* C27: every line of every order persisted by create_order has a quantity *)
(* above 0.                                                                *)
C27_PositiveQuantities ==
    \A o \in 1..Len(orders) : PositiveLines(orders[o].items)

(* What the lines of a request come to: quantity times the price stated,   *)
(* the default price for a line that states none.                          *)
PriceDue(items) ==
    SumSeq([i \in 1..Len(items) |->
               items[i].quantity * (IF items[i].price_per_tray = NoPrice
                                    THEN DefaultPricePerTray
                                    ELSE items[i].price_per_tray)])

(* C28: total price. The totalPrice of an order persisted by POST /orders  *)
(* is the sum over its lines of quantity * pricePerTray, the default price *)
(* (10) used for a line exactly when it states no price; a line that       *)
(* states a price, a price of 0 too, is charged at the stated price.       *)
C28_TotalPrice ==
    [][(last'.op = "create_order" /\ last'.code = 201) =>
          \A items \in PricedOrderInputs :
             create_order(items) => orders'[Len(orders')].total_price = PriceDue(items)]_vars

(* C29: concurrent cancellation credits once. When the cancel requests for *)
(* an order have all returned, the order is cancelled and, for every       *)
(* batch, the cancellation credits of the order are the quantities of its  *)
(* lines on the batch, once.                                               *)
C29_ConcurrentCancelOnce ==
    \A o \in 1..Len(orders) :
        (/\ \A w \in Workers : workers[w].pc = "idle" \/ workers[w].index # o
         /\ PositiveLines(orders[o].items)
         /\ \/ orders[o].status = "cancelled"
            \/ \E e \in 1..Len(inventory_logs) :
                  inventory_logs[e].reason = <<"cancelled", orders[o].id>>) =>
           /\ orders[o].status = "cancelled"
           /\ \A item_id \in IdInputs :
                 LogChanges(inventory_logs, item_id, {<<"cancelled", orders[o].id>>})
                    = LineQuantities(orders[o].items, item_id)
====
